---------------------------- MODULE Spec2Model ----------------------------
(***************************************************************************)
(* A model of the world-data decoders and of the key-trigger tracker of    *)
(* doukutsu-rs:                                                            *)
(*   - Map::load_from and Map::get_attribute        (src/src/map.rs)       *)
(*   - NPCData::load_from                           (src/src/map.rs)       *)
(*   - the GameError conversions                    (src/src/error.rs)     *)
(*   - SharedGameState::update_key_trigger and the key event handlers      *)
(*     (src/src/main.rs, src/src/context.rs)                               *)
(*                                                                         *)
(* The byte sources are values of a generic R: io::Read.  A source is a    *)
(* finite sequence of bytes followed either by end of input or by an I/O   *)
(* failure.  Every decoder step is one action; an early return of the code *)
(* (the ? operator, a return Err(..)) ends the run with pc = "done".       *)
(***************************************************************************)
EXTENDS Integers, Sequences, FiniteSets, TLC

VARIABLES
    \* the build
    reader_kind,      \* which read_exact the type R: io::Read has
    overflow_checks,  \* whether integer overflow panics (debug) or wraps
    \* Map::load_from / Map::get_attribute
    map_data,      \* the tile source   [bytes, fails]
    attrib_data,   \* the attribute source [bytes, fails]
    map_pos,       \* bytes consumed from map_data
    attrib_pos,    \* bytes consumed from attrib_data
    map_pc,        \* position inside Map::load_from
    magic, version, width, height, tiles, attrib,   \* its locals
    map_result,    \* what load_from returned
    query,         \* the last get_attribute call and its outcome
    \* NPCData::load_from
    npc_data, npc_pos, npc_pc, npc_magic, npc_version, count, npc_i, npcs,
    npc_result,
    \* the id assignment of NPCData::load_from on its own
    id_count, id_out,
    \* SharedGameState / KeyboardContext
    key_state, key_trigger, key_old,
    pressed_keys, last_pressed, current_pressed,
    key_op, state_at_call, state_at_prev_call

mapVars == <<map_data, attrib_data, map_pos, attrib_pos, map_pc,
             magic, version, width, height, tiles, attrib, map_result, query>>
npcVars == <<npc_data, npc_pos, npc_pc, npc_magic, npc_version, count, npc_i,
             npcs, npc_result>>
idVars  == <<id_count, id_out>>
keyVars == <<key_state, key_trigger, key_old, pressed_keys, last_pressed,
             current_pressed, key_op, state_at_call, state_at_prev_call>>
vars    == <<reader_kind, overflow_checks, mapVars, npcVars, idVars, keyVars>>

\* What a step of one component leaves alone: the build and the others.
MapFrame  == UNCHANGED <<reader_kind, overflow_checks, npcVars, idVars, keyVars>>
NpcFrame  == UNCHANGED <<reader_kind, overflow_checks, mapVars, idVars, keyVars>>
IdFrame   == UNCHANGED <<reader_kind, overflow_checks, mapVars, npcVars, keyVars>>
KeysFrame == UNCHANGED <<reader_kind, overflow_checks, mapVars, npcVars, idVars>>

-----------------------------------------------------------------------------
(* Bounds of the model *)

\* longest tile grid a generated tile stream carries
MaxTiles == 3
\* largest coordinate handed to get_attribute
MaxCoord == 2
\* most records a generated entity stream carries
MaxRecords == 2

-----------------------------------------------------------------------------
(* Bytes and integers *)

Take(s, n) == SubSeq(s, 1, n)

\* Fault: the value cut to its low byte.
LowByte16(b) == b[1]

\* byteorder::ReadBytesExt::read_u16::<LE> on the two bytes read
LE16(b) == b[1] + 256 * b[2]

\* byteorder::ReadBytesExt::read_i16::<LE>: the same bits, two's complement
LE16Signed(b) == IF LE16(b) >= 32768 THEN LE16(b) - 65536 ELSE LE16(b)

\* byteorder::ReadBytesExt::read_u32::<LE>
LE32(b) == b[1] + 256 * b[2] + 65536 * b[3] + 16777216 * b[4]

HexDigit(d) ==
    <<"0","1","2","3","4","5","6","7","8","9","a","b","c","d","e","f">>[d + 1]

\* format!("{:#x}", v) of a u8: "0x" and the lower-case hex digits, no padding
FmtHex(v) ==
    IF v < 16 THEN "0x" \o HexDigit(v)
              ELSE "0x" \o HexDigit(v \div 16) \o HexDigit(v % 16)

-----------------------------------------------------------------------------
(* io::Read::read_exact *)

\* The two read_exact implementations a type R: io::Read can have.
\*   "read_loop":      the default (files, buffered and virtual-filesystem
\*                     readers): read() is called until the buffer is full,
\*                     so on a short read the buffer holds what was delivered;
\*   "all_or_nothing": in-memory sources (&[u8], Cursor): when fewer bytes
\*                     remain than asked for, the call fails and copies
\*                     nothing.
\* On failure read_exact leaves the contents of the buffer unspecified; these
\* are the two outcomes the standard library produces.
ReaderKinds == {"read_loop", "all_or_nothing"}

\* The io::Error a failed read_exact returns.
IoErrorOf(src) ==
    IF src.fails THEN [kind |-> "Other"] ELSE [kind |-> "UnexpectedEof"]

\* src.read_exact(&mut buf) with buf.len() = n, at position pos.
\* ok: whether it returned Ok; data: the bytes written to the front of buf;
\* pos: the position afterwards; err: the io::Error when not ok.
ReadExact(kind, src, pos, n) ==
    IF pos + n <= Len(src.bytes)
    THEN [ok |-> TRUE, data |-> SubSeq(src.bytes, pos + 1, pos + n),
          pos |-> pos + n, err |-> [kind |-> "None"]]
    ELSE IF kind = "all_or_nothing"
    THEN [ok |-> FALSE, data |-> <<>>, pos |-> pos,
          err |-> [kind |-> "UnexpectedEof"]]
    ELSE [ok |-> FALSE, data |-> SubSeq(src.bytes, pos + 1, Len(src.bytes)),
          pos |-> Len(src.bytes), err |-> IoErrorOf(src)]

\* The buffer after the call: the written front, the rest as it was.
Filled(buf, data) == data \o SubSeq(buf, Len(data) + 1, Len(buf))

-----------------------------------------------------------------------------
(* GameError and GameResult *)

NoError == [variant |-> "None", msg |-> "", io |-> [kind |-> "None"]]

\* GameError::ResourceLoadError(String)
ResourceLoadError(s) ==
    [variant |-> "ResourceLoadError", msg |-> s, io |-> [kind |-> "None"]]

\* impl From<std::io::Error> for GameError, applied by the ? operator
FromIoError(e) == [variant |-> "IOError", msg |-> "", io |-> e]

NoMap == [width |-> 0, height |-> 0, tiles |-> <<>>, attrib |-> <<>>]

-----------------------------------------------------------------------------
(* Map::load_from *)

\* b"PXM" and b"PXE"
PXM == <<80, 88, 77>>
PXE == <<80, 88, 69>>

\* Fault: the tile-map decoder accepting the entity format's version set.
PxmVersionsWithLegacy == {0, 16}

\* static SUPPORTED_PXM_VERSIONS: [u8; 1] = [0x10]
SUPPORTED_PXM_VERSIONS == {16}

\* attrib: [u8; 0x100]
AttribLen == 256

Zeros(n) == [i \in 1..n |-> 0]

\* The tile streams the model decodes: a tag, a version byte, two 16-bit
\* dimensions and a tile grid, cut at every length.
Tags == {PXM, PXE}
MapVersions == {16, 0, 17}
DimLo == {0, 1, 2}
DimHi == {0, 1}
TileBytes == {0, 1}
TileSeqs == UNION {[1..n -> TileBytes] : n \in 0..MaxTiles}
MapFull ==
    {t \o <<v>> \o <<wl, wh>> \o <<hl, 0>> \o b :
        t \in Tags, v \in MapVersions, wl \in DimLo, wh \in DimHi,
        hl \in DimLo, b \in TileSeqs}
MapStreams == UNION {{Take(s, n) : n \in 0..Len(s)} : s \in MapFull}

\* The attribute streams: the first n bytes of a table without zero entries.
AttribLens == {0, 1, 10, 255, 256, 257}
AttribByte(i) == (i % 255) + 1
AttribStreams == {[i \in 1..n |-> AttribByte(i - 1)] : n \in AttribLens}

\* An in-memory source never fails; any other may fail after its last byte.
Sources(kind, streams) ==
    {[bytes |-> s, fails |-> f] :
        s \in streams, f \in IF kind = "all_or_nothing" THEN {FALSE} ELSE BOOLEAN}

NoQuery == [called |-> FALSE, x |-> 0, y |-> 0, out |-> 0]

MapInit ==
    /\ reader_kind \in ReaderKinds
    /\ overflow_checks = FALSE
    /\ map_data \in Sources(reader_kind, MapStreams)
    /\ attrib_data \in Sources(reader_kind, AttribStreams)
    /\ map_pos = 0
    /\ attrib_pos = 0
    /\ map_pc = "magic"
    /\ magic = <<0, 0, 0>>
    /\ version = 0
    /\ width = 0
    /\ height = 0
    /\ tiles = <<>>
    /\ attrib = <<>>
    /\ map_result = [tag |-> "Pending", map |-> NoMap, err |-> NoError]
    /\ query = NoQuery

\* return Err(e)
MapReturnErr(e) ==
    /\ map_result' = [tag |-> "Err", map |-> NoMap, err |-> e]
    /\ map_pc' = "done"

\* map_data.read_exact(&mut magic)?; if &magic != b"PXM" { return Err(..) }
MapReadMagic ==
    /\ map_pc = "magic"
    /\ LET r == ReadExact(reader_kind, map_data, map_pos, 3)
           m == Filled(magic, r.data)
       IN  /\ map_pos' = r.pos
           /\ magic' = m
           /\ IF ~r.ok THEN MapReturnErr(FromIoError(r.err))
              ELSE IF m # PXM THEN MapReturnErr(ResourceLoadError("Invalid magic"))
              ELSE /\ map_pc' = "version"
                   /\ UNCHANGED map_result
    /\ UNCHANGED <<map_data, attrib_data, attrib_pos, version,
                   width, height, tiles, attrib, query>>
    /\ MapFrame

\* let version = map_data.read_u8()?; if !SUPPORTED_PXM_VERSIONS.contains(..)
MapReadVersion ==
    /\ map_pc = "version"
    /\ LET r == ReadExact(reader_kind, map_data, map_pos, 1)
       IN  /\ map_pos' = r.pos
           /\ IF ~r.ok
              THEN /\ MapReturnErr(FromIoError(r.err))
                   /\ UNCHANGED version
              ELSE /\ version' = r.data[1]
                   /\ IF r.data[1] \notin SUPPORTED_PXM_VERSIONS
                      THEN MapReturnErr(ResourceLoadError(
                               "Unsupported PXM version: " \o FmtHex(r.data[1])))
                      ELSE /\ map_pc' = "width"
                           /\ UNCHANGED map_result
    /\ UNCHANGED <<map_data, attrib_data, attrib_pos, magic,
                   width, height, tiles, attrib, query>>
    /\ MapFrame

\* let width = map_data.read_u16::<LE>()? as usize;
MapReadWidth ==
    /\ map_pc = "width"
    /\ LET r == ReadExact(reader_kind, map_data, map_pos, 2)
       IN  /\ map_pos' = r.pos
           /\ IF ~r.ok
              THEN /\ MapReturnErr(FromIoError(r.err))
                   /\ UNCHANGED width
              ELSE /\ width' = LE16(r.data)
                   /\ map_pc' = "height"
                   /\ UNCHANGED map_result
    /\ UNCHANGED <<map_data, attrib_data, attrib_pos, magic,
                   version, height, tiles, attrib, query>>
    /\ MapFrame

\* let height = map_data.read_u16::<LE>()? as usize;
\* let mut tiles = vec![0u8; width * height]; let mut attrib = [0u8; 0x100];
MapReadHeight ==
    /\ map_pc = "height"
    /\ LET r == ReadExact(reader_kind, map_data, map_pos, 2)
       IN  /\ map_pos' = r.pos
           /\ IF ~r.ok
              THEN /\ MapReturnErr(FromIoError(r.err))
                   /\ UNCHANGED <<height, tiles, attrib>>
              ELSE /\ height' = LE16(r.data)
                   /\ tiles' = Zeros(width * LE16(r.data))
                   /\ attrib' = Zeros(AttribLen)
                   /\ map_pc' = "tiles"
                   /\ UNCHANGED map_result
    /\ UNCHANGED <<map_data, attrib_data, attrib_pos, magic,
                   version, width, query>>
    /\ MapFrame

\* Fault: the attribute table read before the tile grid.
MapReadAttribFirst ==
    /\ map_pc = "tiles"
    /\ LET a == ReadExact(reader_kind, attrib_data, attrib_pos, Len(attrib))
           r == ReadExact(reader_kind, map_data, map_pos, Len(tiles))
       IN  /\ attrib_pos' = a.pos
           /\ attrib' = Filled(attrib, a.data)
           /\ map_pos' = r.pos
           /\ tiles' = Filled(tiles, r.data)
           /\ IF ~r.ok THEN MapReturnErr(FromIoError(r.err))
              ELSE /\ map_pc' = "attrib"
                   /\ UNCHANGED map_result
    /\ UNCHANGED <<map_data, attrib_data, magic, version, width, height, query>>
    /\ MapFrame

\* map_data.read_exact(&mut tiles)?;
MapReadTiles ==
    /\ map_pc = "tiles"
    /\ LET r == ReadExact(reader_kind, map_data, map_pos, Len(tiles))
       IN  /\ map_pos' = r.pos
           /\ tiles' = Filled(tiles, r.data)
           /\ IF ~r.ok THEN MapReturnErr(FromIoError(r.err))
              ELSE /\ map_pc' = "attrib"
                   /\ UNCHANGED map_result
    /\ UNCHANGED <<map_data, attrib_data, attrib_pos, magic,
                   version, width, height, attrib, query>>
    /\ MapFrame

\* if attrib_data.read_exact(&mut attrib).is_err() { log::warn!(..) }
\* Ok(Map { width, height, tiles, attrib })
MapReadAttrib ==
    /\ map_pc = "attrib"
    /\ LET r == ReadExact(reader_kind, attrib_data, attrib_pos, Len(attrib))
           a == Filled(attrib, r.data)
       IN  /\ attrib_pos' = r.pos
           /\ attrib' = a
           /\ map_result' =
                  [tag |-> "Ok",
                   map |-> [width |-> width, height |-> height,
                            tiles |-> tiles, attrib |-> a],
                   err |-> NoError]
           /\ map_pc' = "done"
    /\ UNCHANGED <<map_data, attrib_data, map_pos, magic,
                   version, width, height, tiles, query>>
    /\ MapFrame

\* Map::get_attribute:
\* self.attrib[*self.tiles.get(self.width * y + x).unwrap_or_else(|| &0u8)]
GetAttributeOf(m, x, y) ==
    LET idx  == m.width * y + x
        tile == IF idx < Len(m.tiles) THEN m.tiles[idx + 1] ELSE 0
    IN  m.attrib[tile + 1]

\* A caller queries the decoded map.
GetAttribute ==
    /\ map_pc = "done"
    /\ map_result.tag = "Ok"
    /\ \E x \in 0..MaxCoord, y \in 0..MaxCoord :
          query' = [called |-> TRUE, x |-> x, y |-> y,
                    out |-> GetAttributeOf(map_result.map, x, y)]
    /\ UNCHANGED <<map_data, attrib_data, map_pos, attrib_pos,
                   map_pc, magic, version, width, height, tiles, attrib,
                   map_result>>
    /\ MapFrame

MapNext ==
    \/ MapReadMagic
    \/ MapReadVersion
    \/ MapReadWidth
    \/ MapReadHeight
    \/ MapReadTiles
    \/ MapReadAttrib
    \/ GetAttribute

-----------------------------------------------------------------------------
(* NPCData::load_from *)

\* static SUPPORTED_PXE_VERSIONS: [u8; 2] = [0, 0x10]
SUPPORTED_PXE_VERSIONS == {0, 16}

\* id: 170 + i as u16
BaseId == 170
\* u16::MAX + 1
U16 == 65536

\* The entity streams the model decodes: a tag, a version byte, a 32-bit
\* count and records of six 16-bit fields, each with or without a layer
\* byte, cut at every length.
Enc16(v) == <<v % 256, v \div 256>>
EncFields(f) ==
    Enc16(f[1]) \o Enc16(f[2]) \o Enc16(f[3]) \o Enc16(f[4]) \o Enc16(f[5])
        \o Enc16(f[6])
SampleFields == {<<258, 65535, 772, 1286, 1800, 2314>>,
                 <<32768, 7, 40000, 0, 361, 8192>>}
RecordUnits ==
    {EncFields(f) : f \in SampleFields} \cup {EncFields(f) \o <<9>> : f \in SampleFields}
RECURSIVE Bodies(_)
Bodies(n) ==
    IF n = 0 THEN {<<>>}
    ELSE Bodies(n - 1) \cup {b \o u : b \in Bodies(n - 1), u \in RecordUnits}
NpcVersions == {0, 16, 17}
CountLo == {0, 1, 2, 3}
CountHi == {0, 1}
NpcFull ==
    {t \o <<v>> \o <<c, ch, 0, 0>> \o b :
        t \in Tags, v \in NpcVersions, c \in CountLo, ch \in CountHi,
        b \in Bodies(MaxRecords)}
NpcStreams == UNION {{Take(s, n) : n \in 0..Len(s)} : s \in NpcFull}

NpcInit ==
    /\ reader_kind \in ReaderKinds
    /\ overflow_checks \in BOOLEAN
    /\ npc_data \in Sources(reader_kind, NpcStreams)
    /\ npc_pos = 0
    /\ npc_pc = "magic"
    /\ npc_magic = <<0, 0, 0>>
    /\ npc_version = 0
    /\ count = 0
    /\ npc_i = 0
    /\ npcs = <<>>
    /\ npc_result = [tag |-> "Pending", npcs |-> <<>>, err |-> NoError]

\* Fault: a failed read ends the decode with the records parsed so far.
NpcReturnPartial(e) ==
    /\ npc_result' = [tag |-> "Ok", npcs |-> npcs, err |-> NoError]
    /\ npc_pc' = "done"

\* return Err(e): the local npcs is dropped
NpcReturnErr(e) ==
    /\ npc_result' = [tag |-> "Err", npcs |-> <<>>, err |-> e]
    /\ npc_pc' = "done"

\* data.read_exact(&mut magic)?; if &magic != b"PXE" { return Err(..) }
NpcReadMagic ==
    /\ npc_pc = "magic"
    /\ LET r == ReadExact(reader_kind, npc_data, npc_pos, 3)
           m == Filled(npc_magic, r.data)
       IN  /\ npc_pos' = r.pos
           /\ npc_magic' = m
           /\ IF ~r.ok THEN NpcReturnErr(FromIoError(r.err))
              ELSE IF m # PXE THEN NpcReturnErr(ResourceLoadError("Invalid magic"))
              ELSE /\ npc_pc' = "version"
                   /\ UNCHANGED npc_result
    /\ UNCHANGED <<npc_data, npc_version, count, npc_i, npcs>>
    /\ NpcFrame

\* let version = data.read_u8()?; if !SUPPORTED_PXE_VERSIONS.contains(..)
NpcReadVersion ==
    /\ npc_pc = "version"
    /\ LET r == ReadExact(reader_kind, npc_data, npc_pos, 1)
       IN  /\ npc_pos' = r.pos
           /\ IF ~r.ok
              THEN /\ NpcReturnErr(FromIoError(r.err))
                   /\ UNCHANGED npc_version
              ELSE /\ npc_version' = r.data[1]
                   /\ IF r.data[1] \notin SUPPORTED_PXE_VERSIONS
                      THEN NpcReturnErr(ResourceLoadError(
                               "Unsupported PXE version: " \o FmtHex(r.data[1])))
                      ELSE /\ npc_pc' = "count"
                           /\ UNCHANGED npc_result
    /\ UNCHANGED <<npc_data, npc_magic, count, npc_i, npcs>>
    /\ NpcFrame

\* let count = data.read_u32::<LE>()? as usize;
\* let mut npcs = Vec::with_capacity(count);
NpcReadCount ==
    /\ npc_pc = "count"
    /\ LET r == ReadExact(reader_kind, npc_data, npc_pos, 4)
       IN  /\ npc_pos' = r.pos
           /\ IF ~r.ok
              THEN /\ NpcReturnErr(FromIoError(r.err))
                   /\ UNCHANGED count
              ELSE /\ count' = LE32(r.data)
                   /\ npc_pc' = "loop"
                   /\ UNCHANGED npc_result
    /\ UNCHANGED <<npc_data, npc_magic, npc_version, npc_i, npcs>>
    /\ NpcFrame

\* The six 16-bit reads of one loop iteration, in order, each with ?:
\* the k reads left, from position pos, after the values in acc.
RECURSIVE ReadFields(_, _, _, _, _)
ReadFields(kind, src, pos, k, acc) ==
    IF k = 0 THEN [ok |-> TRUE, pos |-> pos, raw |-> acc, err |-> [kind |-> "None"]]
    ELSE LET r == ReadExact(kind, src, pos, 2)
         IN  IF ~r.ok
             THEN [ok |-> FALSE, pos |-> r.pos, raw |-> acc, err |-> r.err]
             ELSE ReadFields(kind, src, r.pos, k - 1, Append(acc, r.data))

\* Fault: the layer byte read whatever the version.
ReadLayerAlways(kind, src, pos, ver) ==
    LET r == ReadExact(kind, src, pos, 1)
    IN  [ok |-> r.ok, pos |-> r.pos, err |-> r.err,
         layer |-> IF r.ok THEN r.data[1] ELSE 0]

\* let layer = if version == 0x10 { data.read_u8()? } else { 0 };
ReadLayer(kind, src, pos, ver) ==
    IF ver = 16
    THEN LET r == ReadExact(kind, src, pos, 1)
         IN  [ok |-> r.ok, pos |-> r.pos, err |-> r.err,
              layer |-> IF r.ok THEN r.data[1] ELSE 0]
    ELSE [ok |-> TRUE, pos |-> pos, err |-> [kind |-> "None"], layer |-> 0]

\* id: 170 + i as u16.  The cast binds first and truncates i to 16 bits;
\* the u16 addition overflows past 65535: a panic with overflow checks,
\* a wrapped value without.
NpcId(i, checks) ==
    LET sum == BaseId + (i % U16)
    IN  [panic |-> sum >= U16 /\ checks, id |-> sum % U16]

\* NPCData { id, x, y, flag_num, event_num, npc_type, flags, layer }
NpcRecord(id, raw, layer) ==
    [id |-> id, x |-> LE16Signed(raw[1]), y |-> LE16Signed(raw[2]),
     flag_num |-> LE16(raw[3]), event_num |-> LE16(raw[4]),
     npc_type |-> LE16(raw[5]), flags |-> LE16(raw[6]), layer |-> layer]

\* One iteration of for i in 0..count { .. npcs.push(NPCData { .. }) }
NpcReadRecord ==
    /\ npc_pc = "loop"
    /\ npc_i < count
    /\ LET f  == ReadFields(reader_kind, npc_data, npc_pos, 6, <<>>)
           l  == ReadLayer(reader_kind, npc_data, f.pos, npc_version)
           id == NpcId(npc_i, overflow_checks)
       IN  IF ~f.ok
           THEN /\ npc_pos' = f.pos
                /\ NpcReturnErr(FromIoError(f.err))
                /\ UNCHANGED <<npc_i, npcs>>
           ELSE IF ~l.ok
           THEN /\ npc_pos' = l.pos
                /\ NpcReturnErr(FromIoError(l.err))
                /\ UNCHANGED <<npc_i, npcs>>
           ELSE IF id.panic
           THEN /\ npc_pos' = l.pos
                /\ npc_result' = [tag |-> "Panic", npcs |-> <<>>, err |-> NoError]
                /\ npc_pc' = "done"
                /\ UNCHANGED <<npc_i, npcs>>
           ELSE /\ npc_pos' = l.pos
                /\ npcs' = Append(npcs, NpcRecord(id.id, f.raw, l.layer))
                /\ npc_i' = npc_i + 1
                /\ UNCHANGED <<npc_pc, npc_result>>
    /\ UNCHANGED <<npc_data, npc_magic, npc_version, count>>
    /\ NpcFrame

\* Ok(npcs)
NpcReturnOk ==
    /\ npc_pc = "loop"
    /\ npc_i >= count
    /\ npc_result' = [tag |-> "Ok", npcs |-> npcs, err |-> NoError]
    /\ npc_pc' = "done"
    /\ UNCHANGED <<npc_data, npc_pos, npc_magic, npc_version, count, npc_i, npcs>>
    /\ NpcFrame

NpcNext ==
    \/ NpcReadMagic
    \/ NpcReadVersion
    \/ NpcReadCount
    \/ NpcReadRecord
    \/ NpcReturnOk

-----------------------------------------------------------------------------
(* The id assignment of NPCData::load_from over long streams *)

\* Record counts and record positions around the 16-bit limits.
IdCounts == {0, 1, 2, 3, 4, 65365, 65366, 65367, 65368, 65536, 65537, 65707, 131073}
IdIndices == {0, 1, 2, 3, 65364, 65365, 65366, 65367, 65535, 65536, 65537, 65706, 131072}

NoIds == [done |-> FALSE, panic |-> FALSE, i |-> 0, j |-> 0, id_i |-> 0, id_j |-> 0]

IdInit ==
    /\ overflow_checks \in BOOLEAN
    /\ id_count \in IdCounts
    /\ id_out = NoIds

\* Whether the loop over 0..n panics: some i below n makes the id overflow.
\* i as u16 runs through 0..65535 and again, so the largest truncated i
\* below n decides.
LoopPanics(n, checks) ==
    /\ n > 0
    /\ NpcId(IF n > U16 THEN U16 - 1 ELSE n - 1, checks).panic

\* The ids load_from gives to the records at two positions i < j of a
\* well-formed stream of id_count records.
AssignIds ==
    /\ ~id_out.done
    /\ IF LoopPanics(id_count, overflow_checks)
       THEN id_out' = [NoIds EXCEPT !.done = TRUE, !.panic = TRUE]
       ELSE \E i \in IdIndices, j \in IdIndices :
               /\ i < j
               /\ j < id_count
               /\ id_out' = [done |-> TRUE, panic |-> FALSE, i |-> i, j |-> j,
                             id_i |-> NpcId(i, overflow_checks).id,
                             id_j |-> NpcId(j, overflow_checks).id]
    /\ UNCHANGED id_count
    /\ IdFrame

IdNext == AssignIds

-----------------------------------------------------------------------------
(* SharedGameState: key_state, key_trigger, key_old; KeyboardContext *)

\* bits of a u16
Bits == 0..15

RECURSIVE Pow2(_)
Pow2(n) == IF n = 0 THEN 1 ELSE 2 * Pow2(n - 1)

Bit(v, b) == (v \div Pow2(b)) % 2

RECURSIVE FromBits(_, _)
\* the u16 whose bit b is f[b], summed from bit b upwards
FromBits(f, b) == IF b > 15 THEN 0 ELSE f[b] * Pow2(b) + FromBits(f, b + 1)

\* a ^ b and a & b on u16
Xor(a, b) == FromBits([i \in Bits |-> (Bit(a, i) + Bit(b, i)) % 2], 0)
And(a, b) == FromBits([i \in Bits |-> Bit(a, i) * Bit(b, i)], 0)

\* bitfield! setter: set_<field>(value)
SetBit(v, b, on) ==
    FromBits([i \in Bits |-> IF i = b THEN (IF on THEN 1 ELSE 0) ELSE Bit(v, i)], 0)

\* bitfield! KeyState: the bit of each field
KeyStateBit ==
    [left |-> 0, right |-> 1, up |-> 2, down |-> 3, map |-> 4, jump |-> 5,
     fire |-> 6, weapon_next |-> 7, weapon_prev |-> 8]

\* The match of key_down_event / key_up_event: the field a key code sets,
\* "none" for the _ => {} arm.
KeyField(key_code) ==
    CASE key_code = "Left"  -> "left"
      [] key_code = "Right" -> "right"
      [] key_code = "Up"    -> "up"
      [] key_code = "Down"  -> "down"
      [] key_code = "Z"     -> "jump"
      [] key_code = "X"     -> "fire"
      [] key_code = "A"     -> "weapon_prev"
      [] key_code = "S"     -> "weapon_next"
      [] OTHER              -> "none"

\* The key codes the window delivers in the model.
KeyCodes == {"Left", "Z", "A", "Escape"}

NoKey == "None"

KeysInit ==
    /\ key_state = 0
    /\ key_trigger = 0
    /\ key_old = 0
    /\ pressed_keys = {}
    /\ last_pressed = NoKey
    /\ current_pressed = NoKey
    /\ key_op = "new"
    /\ state_at_call = 0
    /\ state_at_prev_call = 0

\* KeyboardContext::is_key_repeated, on the fields after set_key_state
IsKeyRepeated(last, current) == IF last # NoKey THEN last = current ELSE FALSE

\* Game::key_down_event(key_code, repeat): the new key_state
KeyDownEvent(state, key_code, repeat) ==
    IF repeat THEN state
    ELSE IF KeyField(key_code) = "none" THEN state
    ELSE SetBit(state, KeyStateBit[KeyField(key_code)], TRUE)

\* Game::key_up_event(key_code): the new key_state
KeyUpEvent(state, key_code) ==
    IF KeyField(key_code) = "none" THEN state
    ELSE SetBit(state, KeyStateBit[KeyField(key_code)], FALSE)

\* ElementState::Pressed: set_key_state(keycode, true), then key_down_event
KeyPressed ==
    /\ KeysFrame
    /\ \E k \in KeyCodes :
        /\ pressed_keys' = pressed_keys \cup {k}
        /\ last_pressed' = current_pressed
        /\ current_pressed' = k
        /\ key_state' = KeyDownEvent(key_state, k, IsKeyRepeated(current_pressed, k))
        /\ key_op' = "key_down"
        /\ UNCHANGED <<key_trigger, key_old, state_at_call, state_at_prev_call>>

\* ElementState::Released: set_key_state(keycode, false), then key_up_event
KeyReleased ==
    /\ KeysFrame
    /\ \E k \in KeyCodes :
        /\ pressed_keys' = pressed_keys \ {k}
        /\ current_pressed' = NoKey
        /\ key_state' = KeyUpEvent(key_state, k)
        /\ key_op' = "key_up"
        /\ UNCHANGED <<last_pressed, key_trigger, key_old, state_at_call,
                       state_at_prev_call>>

\* Fault: the second statement left out, so releases trigger too.
TriggerOnChange(state, old) == Xor(state, old)

\* let mut trigger = self.key_state.0 ^ self.key_old;
\* trigger = self.key_state.0 & trigger;
Trigger(state, old) == And(state, Xor(state, old))

\* SharedGameState::update_key_trigger
UpdateKeyTrigger ==
    /\ key_trigger' = Trigger(key_state, key_old)
    /\ key_old' = key_state
    /\ key_op' = "update_key_trigger"
    /\ state_at_prev_call' = state_at_call
    /\ state_at_call' = key_state
    /\ UNCHANGED <<key_state, pressed_keys, last_pressed, current_pressed>>
    /\ KeysFrame

KeysNext ==
    \/ KeyPressed
    \/ KeyReleased
    \/ UpdateKeyTrigger

-----------------------------------------------------------------------------
(* The specifications.  Each runs one component; the others stay as       *)
(* constructed.                                                           *)

MapIdle ==
    /\ map_data = [bytes |-> <<>>, fails |-> FALSE]
    /\ attrib_data = [bytes |-> <<>>, fails |-> FALSE]
    /\ map_pos = 0
    /\ attrib_pos = 0
    /\ map_pc = "idle"
    /\ magic = <<0, 0, 0>>
    /\ version = 0
    /\ width = 0
    /\ height = 0
    /\ tiles = <<>>
    /\ attrib = <<>>
    /\ map_result = [tag |-> "Pending", map |-> NoMap, err |-> NoError]
    /\ query = NoQuery

NpcIdle ==
    /\ npc_data = [bytes |-> <<>>, fails |-> FALSE]
    /\ npc_pos = 0
    /\ npc_pc = "idle"
    /\ npc_magic = <<0, 0, 0>>
    /\ npc_version = 0
    /\ count = 0
    /\ npc_i = 0
    /\ npcs = <<>>
    /\ npc_result = [tag |-> "Pending", npcs |-> <<>>, err |-> NoError]

IdIdle ==
    /\ id_count = 0
    /\ id_out = NoIds

BuildIdle ==
    /\ reader_kind = "read_loop"
    /\ overflow_checks = FALSE

InitMap  == MapInit /\ NpcIdle /\ IdIdle /\ KeysInit
InitNpc  == NpcInit /\ MapIdle /\ IdIdle /\ KeysInit
InitId   == IdInit /\ reader_kind = "read_loop" /\ MapIdle /\ NpcIdle /\ KeysInit
InitKeys == KeysInit /\ BuildIdle /\ MapIdle /\ NpcIdle /\ IdIdle

\* Map::load_from, then get_attribute on the decoded map
SpecMap == InitMap /\ [][MapNext]_vars

\* NPCData::load_from
SpecNpc == InitNpc /\ [][NpcNext]_vars

\* the ids NPCData::load_from assigns
SpecId == InitId /\ [][IdNext]_vars

\* key events and update_key_trigger
SpecKeys == InitKeys /\ [][KeysNext]_vars

-----------------------------------------------------------------------------
(* The claims.  What a claim says of a stream is stated on the bytes of   *)
(* the source, not on the decoder's variables.                            *)

\* the unsigned 16-bit value stored little-endian at byte offset o of b
U16At(b, o) == b[o + 1] + 256 * b[o + 2]

MapBytes == map_data.bytes
MapDone == map_pc = "done"
MapOk == map_pc = "done" /\ map_result.tag = "Ok"
MapErr == map_pc = "done" /\ map_result.tag = "Err"
\* the tile stream starts with the tile-map tag
HasMapTag == Len(MapBytes) >= 3 /\ Take(MapBytes, 3) = <<80, 88, 77>>

\* C1: for every decoded Map and every (x, y) with x >= width or
\* y >= height, get_attribute(x, y) returns attrib[0].
C1_OutsideGivesDefault ==
    (query.called /\ (query.x >= map_result.map.width
                        \/ query.y >= map_result.map.height))
        => query.out = map_result.map.attrib[1]

\* C2: in a successful decode the record at position i has id 170 + i, so
\* the ids increase strictly in file order and no two records share one.
C2_IdsIncreaseWithPosition ==
    (id_out.done /\ ~id_out.panic)
        => /\ id_out.id_i = 170 + id_out.i
           /\ id_out.id_j = 170 + id_out.j
           /\ id_out.id_i < id_out.id_j

\* C3: when the attribute source holds n < 256 bytes and the tile stream is
\* valid, load_from returns Ok with attrib[0..n) the n bytes in order and
\* attrib[n..256) zero.
C3_ShortAttribKeepsPrefix ==
    (MapDone /\ map_result.tag # "Err" /\ Len(attrib_data.bytes) < 256)
        => /\ map_result.tag = "Ok"
           /\ map_result.map.attrib =
                  attrib_data.bytes \o [i \in 1..(256 - Len(attrib_data.bytes)) |-> 0]

NpcBytes == npc_data.bytes
NpcDone == npc_pc = "done"
\* the entity stream has the entity tag and a supported version
NpcHeaderValid ==
    /\ Len(NpcBytes) >= 4
    /\ Take(NpcBytes, 3) = <<80, 88, 69>>
    /\ NpcBytes[4] \in {0, 16}
\* the count the stream advertises, and the size of one of its records
NpcCountField ==
    NpcBytes[5] + 256 * NpcBytes[6] + 65536 * NpcBytes[7] + 16777216 * NpcBytes[8]
NpcRecordSize == IF NpcBytes[4] = 16 THEN 13 ELSE 12
\* the stream ends before all advertised records are there in full
NpcTruncated ==
    /\ NpcHeaderValid
    /\ Len(NpcBytes) < 8 \/ Len(NpcBytes) < 8 + NpcCountField * NpcRecordSize
NpcWellFormed ==
    /\ NpcHeaderValid
    /\ Len(NpcBytes) >= 8
    /\ Len(NpcBytes) >= 8 + NpcCountField * NpcRecordSize

C5_OkMapShape ==
    MapOk
        => LET w == U16At(MapBytes, 4)
               h == U16At(MapBytes, 6)
               m == map_result.map
           IN  /\ Len(MapBytes) >= 8 + w * h
               /\ m.width = w
               /\ m.height = h
               /\ Len(m.tiles) = m.width * m.height
               /\ m.tiles = SubSeq(MapBytes, 9, 8 + w * h)
               /\ Len(m.attrib) = 256

\* C5 witness: a decoded map whose grid is not square and holds tiles.
C5_Witness ==
    /\ MapOk
    /\ Len(map_result.map.tiles) >= 2
    /\ map_result.map.width # map_result.map.height

\* C6: a tile stream with the tile-map tag and a version byte other than
\* 0x10 fails with the unsupported-version error naming that byte, whatever
\* follows the version byte and whatever the attribute source holds.
C6_UnsupportedVersion ==
    (HasMapTag /\ Len(MapBytes) >= 4 /\ MapBytes[4] # 16)
        => /\ map_pc \in {"magic", "version", "done"}
           /\ MapDone =>
                 map_result =
                     [tag |-> "Err", map |-> NoMap,
                      err |-> [variant |-> "ResourceLoadError",
                               msg |-> "Unsupported PXM version: "
                                          \o FmtHex(MapBytes[4]),
                               io |-> [kind |-> "None"]]]

\* C6 witness: version 0x11 in front of well-formed dimensions and tiles.
C6_Witness ==
    /\ MapErr /\ HasMapTag
    /\ Len(MapBytes) >= 10
    /\ MapBytes[4] = 17
    /\ Len(MapBytes) = 8 + U16At(MapBytes, 4) * U16At(MapBytes, 6)
    /\ map_result.err.msg = "Unsupported PXM version: 0x11"

\* the value of the k-th 16-bit field (k = 0..5) of stream record i
NpcFieldAt(i, k) == U16At(NpcBytes, 8 + i * NpcRecordSize + 2 * k)
\* v is the two's-complement reading of the 16 bits u
IsSigned16(v, u) == v \in -32768..32767 /\ (v = u \/ v = u - 65536)

MapShortRead ==
    /\ ~map_data.fails
    /\ map_pos = Len(MapBytes)
    /\ map_result.err.io.kind = "UnexpectedEof"

\* C8: a short read is reported as an error of a kind distinct from the one
\* that wraps an I/O failure of the byte source and from the kinds of
\* invalid magic and unsupported version.
C8_ShortReadHasOwnKind ==
    (MapErr /\ MapShortRead)
        => /\ map_result.err.variant # FromIoError([kind |-> "Other"]).variant
           /\ map_result.err.variant # ResourceLoadError("Invalid magic").variant

\* C9: load_from reads magic, version, width, height and the tile grid in
\* this order and stops at the first failing step; the attribute source is
\* read only after the whole grid: a failed decode has consumed none of it;
\* wrong magic together with an unsupported version is invalid magic.
C9_ReadOrder ==
    /\ map_pc = "version" => map_pos = 3
    /\ map_pc = "width" => map_pos = 4
    /\ map_pc = "height" => map_pos = 6
    /\ map_pc = "tiles" => map_pos = 8
    /\ map_pc = "attrib" => map_pos = 8 + U16At(MapBytes, 4) * U16At(MapBytes, 6)
    /\ map_result.tag # "Ok" => attrib_pos = 0
    /\ (MapErr /\ map_result.err.variant = "ResourceLoadError")
          => map_pos = (IF map_result.err.msg = "Invalid magic" THEN 3 ELSE 4)
    /\ (MapDone /\ Len(MapBytes) >= 4 /\ Take(MapBytes, 3) # <<80, 88, 77>>)
          => map_result.err = ResourceLoadError("Invalid magic")

\* C9 witness: the tile grid is short while the attribute source has bytes.
C9_Witness ==
    /\ MapErr
    /\ HasMapTag /\ Len(MapBytes) > 8
    /\ Len(MapBytes) < 8 + U16At(MapBytes, 4) * U16At(MapBytes, 6)
    /\ Len(attrib_data.bytes) >= 256
    /\ map_result.err.variant = "IOError"

\* bit b of v is set
Has(v, b) == (v \div Pow2(b)) % 2 = 1

\* C10: right after each update_key_trigger call key_old equals key_state,
\* and a bit of key_trigger is set exactly when it is set in key_state now
\* and was not set in key_state at the previous call.
C10_TriggerIsFreshPress ==
    key_op = "update_key_trigger"
        => /\ key_old = key_state
           /\ \A b \in 0..15 :
                 Has(key_trigger, b)
                     <=> (Has(key_state, b) /\ ~Has(state_at_prev_call, b))

\* C10 witness: a key held over two calls while another is freshly pressed.
C10_Witness ==
    /\ key_op = "update_key_trigger"
    /\ Has(key_state, 0) /\ Has(state_at_prev_call, 0) /\ ~Has(key_trigger, 0)
    /\ Has(key_state, 5) /\ Has(key_trigger, 5)

=============================================================================
